---- MODULE Spec2Model ----
(***************************************************************************)
(* Model of src/utils/progress_bar.rs: the clamped position tracker        *)
(* (ProgressPos, a Mutex<f32>) and the Progress handle that shares it       *)
(* through an Arc and reports every update to a position callback.          *)
(*                                                                         *)
(* f32 values are modelled by the integers (small integers are exact in    *)
(* f32, so + and min on them are the integer operations) together with     *)
(* the three special values +inf, -inf and NaN, encoded as the integers    *)
(* PInf, NInf and NaN below; FAdd, FMin and FLe give them IEEE-754 / Rust  *)
(* semantics.                                                              *)
(***************************************************************************)
EXTENDS Integers, Sequences, FiniteSets, TLC

\* ---------------------------------------------------------------- bounds
NThreads == 2
MaxCalls == 2
MaxAdds == 3

Threads == 1..NThreads
TrackerIds == 1..NThreads

\* ---------------------------------------------------------------- f32
PInf == 1000000
NInf == 0 - PInf
NaN == 3000000

Top == 100

FAdd(a, b) ==
  IF a = NaN \/ b = NaN THEN NaN
  ELSE IF a = PInf THEN (IF b = NInf THEN NaN ELSE PInf)
  ELSE IF a = NInf THEN (IF b = PInf THEN NaN ELSE NInf)
  ELSE IF b = PInf \/ b = NInf THEN b
  ELSE a + b

\* f32::min returns the other operand when one of them is NaN
FMin(a, b) ==
  IF a = NaN THEN b
  ELSE IF b = NaN THEN a
  ELSE IF a <= b THEN a ELSE b

\* IEEE comparison: false as soon as an operand is NaN
FLe(a, b) == a # NaN /\ b # NaN /\ a <= b

\* ---------------------------------------------------------------- inputs
None == [some |-> FALSE, v |-> 0]
Some(x) == [some |-> TRUE, v |-> x]

IncArgs == {None, Some(0 - 5), Some(60)}
Lens == {40}
AddDeltas == {NInf, 0 - 5, 1, 2, 10, PInf, NaN}
InitVals == {0, 95, 200}

\* `msg: S` with S: ToString: a string or an integer
StrMsg(x) == [isstr |-> TRUE, s |-> x, n |-> 0]
IntMsg(i) == [isstr |-> FALSE, s |-> "", n |-> i]
NoMsg == StrMsg("")
Msgs == {StrMsg("done"), IntMsg(7)}

\* ToString::to_string
to_string(m) == IF m.isstr THEN m.s ELSE IF m.n = 7 THEN "7" ELSE "0"

\* the two callback references Progress::new is given
TheCallbacks == [msg |-> "msg_cb", pos |-> "pos_cb"]
NoCallbacks == [msg |-> "none", pos |-> "none"]

\* ---------------------------------------------------------------- state
VARIABLES
  pc,      \* position of each thread inside its current call
  op,      \* the call a thread is executing: "none", "inc", "add", "load"
  arg,     \* inc's `value: Option<f32>`
  delta,   \* add's `value: f32`
  found,   \* the value of *guard read by add
  loaded,  \* the value returned by load
  ret,     \* the Result returned by the last inc: "none", "Ok", "Err"
  hpos,    \* Progress.pos of each thread's handle: the tracker it points to, 0 = no handle yet
  len,     \* Progress.len of each thread's handle
  cell,    \* the f32 inside the Mutex of each ProgressPos
  lock,    \* the holder of each ProgressPos's Mutex, 0 = free
  shown,   \* the value the position callback received last
  answer,  \* what the position callback answered last: "none", "Ok", "Err"
  ncb,     \* number of position callback invocations so far
  ncalls,  \* number of add calls begun so far (directly or through inc)
  sum,     \* sum of the deltas of the add calls begun so far, kept while nonneg
  nonneg,  \* the deltas of the add calls begun so far were all >= 0
  acc,     \* the deltas accumulated and clamped in the order the adds stored them
  initv,   \* the value the tracker was constructed with
  lastw,   \* the thread whose inc stored last; 0 when none did yet, or when a
           \* direct add stored since
  hcb,     \* Progress.msg_callback and Progress.pos_callback of each thread's handle
  poisoned,\* the poison flag of each ProgressPos's Mutex
  marg,    \* the `msg` argument of show_msg / send_and_print
  text,    \* msg.to_string()
  prog,    \* send_and_print's `progress` argument is Some(handle)
  printed, \* the lines written to standard output so far
  msgshown,\* the text the message callback received last
  manswer, \* what the message callback answered last: "none", "Ok", "Err"
  nmsg,    \* number of message callback invocations so far
  nshow,   \* number of direct show_msg calls begun so far
  nsend,   \* number of send_and_print calls begun so far
  nsendp   \* number of them that were given Some(handle)

vars == <<pc, op, arg, delta, found, loaded, ret, hpos, len, cell, lock,
          shown, answer, ncb, ncalls, sum, nonneg, acc, initv,
          lastw, hcb, poisoned, marg, text, prog, printed,
          msgshown, manswer, nmsg, nshow, nsend, nsendp>>

mlocals == <<marg, text, prog>>
msgseen == <<msgshown, manswer, nmsg>>
mcalls == <<nshow, nsend, nsendp>>
\* what the position side (add, load, inc, clone, with_len) never touches
msgside == <<mlocals, printed, msgseen, mcalls>>

locals == <<arg, delta, found, loaded, ret>>
handles == <<hpos, len>>
observed == <<shown, answer, ncb>>
begun == <<ncalls, sum, nonneg>>
history == <<begun, acc, initv>>

\* The tracker a thread's calls operate on (self.pos / &self of ProgressPos)
Trk(t) == hpos[t]

\* A slip: unwrap_or_default() in place of unwrap_or(self.len)
UnwrapOrDefault(value, dflt) == IF value.some THEN value.v ELSE 0

\* value.unwrap_or(self.len)
UnwrapOr(value, dflt) == IF value.some THEN value.v ELSE dflt

\* A slip: the store overwrites the position instead of accumulating into it
AddValueNoAcc(cur, value) == FMin(value, Top)

\* A slip: the clamp is left out
AddValueNoClamp(cur, value) == FAdd(cur, value)

\* (*guard + value).min(100.0)
AddValue(cur, value) == FMin(FAdd(cur, value), Top)

\* A slip: the position is not protected by a lock at all
CanLockAlways(tr) == TRUE

\* Mutex::lock blocks until the mutex is free
CanLock(tr) == lock[tr] = 0

\* A slip: the callback's result is dropped (`let _ = ..; Ok(())`)
IncResultIgnored(r) == "Ok"

\* A slip: the guard is kept alive (bound to a variable that outlives the call)
UnlockForgotten(tr) == lock

\* the MutexGuard is dropped
Unlock(tr) == [lock EXCEPT ![tr] = 0]

\* A slip: the callback is given the position read before the update
CallbackArgStale(t) == found[t]

\* A slip: the callback is given the increment instead of the new total
CallbackArgDelta(t) == delta[t]

\* the argument of the position callback: self.pos.load()
CallbackArg(t) == loaded[t]

\* A slip: show_msg drops the callback's result
ShowResultIgnored(r) == "Ok"

\* show_msg returns the message callback's result as it is
ShowResult(r) == r

\* send_and_print: `prog.show_msg(m)?; Ok(())`
SendResult(r) == IF r = "Err" THEN "Err" ELSE "Ok"

\* A slip: the message is printed but never forwarded
AfterPrintNever(p) == "idle"

\* send_and_print: `if let Some(prog) = progress { prog.show_msg(m) .. }`
AfterPrint(p) == IF p THEN "msg_callback" ELSE "idle"

\* `(self.pos_callback)(..)?; Ok(())`
IncResult(r) == IF r = "Err" THEN "Err" ELSE "Ok"

\* ---------------------------------------------------------------- Init
NewPos(value) == [tr \in TrackerIds |-> IF tr = 1 THEN value ELSE 0]

Common ==
  /\ pc = [t \in Threads |-> "idle"]
  /\ op = [t \in Threads |-> "none"]
  /\ arg = [t \in Threads |-> None]
  /\ delta = [t \in Threads |-> 0]
  /\ found = [t \in Threads |-> 0]
  /\ loaded = [t \in Threads |-> 0]
  /\ ret = [t \in Threads |-> "none"]
  /\ lock = [tr \in TrackerIds |-> 0]
  /\ poisoned = [tr \in TrackerIds |-> FALSE]
  /\ lastw = 0
  /\ marg = [t \in Threads |-> NoMsg]
  /\ text = [t \in Threads |-> ""]
  /\ prog = [t \in Threads |-> FALSE]
  /\ printed = <<>>
  /\ msgshown = ""
  /\ manswer = "none"
  /\ nmsg = 0
  /\ nshow = 0
  /\ nsend = 0
  /\ nsendp = 0
  /\ shown = 0
  /\ answer = "none"
  /\ ncb = 0
  /\ ncalls = 0
  /\ sum = 0
  /\ nonneg = TRUE

\* Progress::new: one handle, held by thread 1, tracker at 0.0, len 0.0
Init ==
  /\ Common
  /\ cell = NewPos(0)
  /\ initv = 0
  /\ acc = 0
  /\ hpos = [t \in Threads |-> IF t = 1 THEN 1 ELSE 0]
  /\ len = [t \in Threads |-> 0]
  /\ hcb = [t \in Threads |-> IF t = 1 THEN TheCallbacks ELSE NoCallbacks]

\* ProgressPos::new(value): one tracker that every thread holds a reference to
InitPos ==
  /\ Common
  /\ \E v \in InitVals : cell = NewPos(v) /\ initv = v /\ acc = v
  /\ hpos = [t \in Threads |-> 1]
  /\ len = [t \in Threads |-> 0]
  /\ hcb = [t \in Threads |-> NoCallbacks]

\* ---------------------------------------------------------------- Progress
\* A slip: a clone gets a tracker of its own, holding a copy of the position
CloneDeep(src, dst) ==
  /\ hpos[src] # 0 /\ hpos[dst] = 0
  /\ pc[src] = "idle"
  /\ lock[hpos[src]] = 0
  /\ hpos' = [hpos EXCEPT ![dst] = dst]
  /\ cell' = [cell EXCEPT ![dst] = cell[hpos[src]]]
  /\ len' = [len EXCEPT ![dst] = len[src]]
  /\ hcb' = [hcb EXCEPT ![dst] = hcb[src]]
  /\ UNCHANGED <<pc, op, locals, lock, observed, history>>
  /\ UNCHANGED <<msgside, poisoned, lastw>>

\* #[derive(Clone)]: Arc::clone shares the tracker, len is copied
Clone(src, dst) ==
  /\ hpos[src] # 0 /\ hpos[dst] = 0
  /\ pc[src] = "idle"
  /\ hpos' = [hpos EXCEPT ![dst] = hpos[src]]
  /\ len' = [len EXCEPT ![dst] = len[src]]
  /\ hcb' = [hcb EXCEPT ![dst] = hcb[src]]
  /\ UNCHANGED <<pc, op, locals, cell, lock, observed, history>>
  /\ UNCHANGED <<msgside, poisoned, lastw>>

\* A slip: the builder starts the progress over (the position goes back to 0.0)
WithLenReset(t, l) ==
  /\ hpos[t] # 0 /\ pc[t] = "idle"
  /\ lock[hpos[t]] = 0
  /\ len' = [len EXCEPT ![t] = l]
  /\ cell' = [cell EXCEPT ![hpos[t]] = 0]
  /\ UNCHANGED <<pc, op, locals, hpos, lock, observed, history>>
  /\ UNCHANGED <<msgside, poisoned, lastw, hcb>>

\* with_len(mut self, len)
WithLen(t, l) ==
  /\ hpos[t] # 0 /\ pc[t] = "idle"
  /\ len' = [len EXCEPT ![t] = l]
  /\ UNCHANGED <<pc, op, locals, hpos, cell, lock, observed, history>>
  /\ UNCHANGED <<msgside, poisoned, lastw, hcb>>

\* The call of add(value): what the history records, and the thread's entry into add
BeginAdd(t, o, a, d) ==
  /\ hpos[t] # 0 /\ pc[t] = "idle"
  /\ pc' = [pc EXCEPT ![t] = "add_lock"]
  /\ op' = [op EXCEPT ![t] = o]
  /\ arg' = [arg EXCEPT ![t] = a]
  /\ delta' = [delta EXCEPT ![t] = d]
  /\ loaded' = [loaded EXCEPT ![t] = 0]
  /\ ret' = [ret EXCEPT ![t] = "none"]
  /\ ncalls' = ncalls + 1
  /\ nonneg' = (nonneg /\ FLe(0, d))
  /\ sum' = IF nonneg' THEN FAdd(sum, d) ELSE 0
  /\ found' = [found EXCEPT ![t] = 0]
  /\ UNCHANGED <<handles, cell, lock, observed, initv, acc>>
  /\ UNCHANGED <<msgside, poisoned, lastw, hcb>>

\* inc, lines 61-62: delta = value.unwrap_or(self.len); self.pos.add(delta)
CallInc(t, value) ==
  /\ ncalls + nshow + nsend < MaxCalls
  /\ BeginAdd(t, "inc", value, UnwrapOr(value, len[t]))

\* ---------------------------------------------------------------- ProgressPos
\* a direct call of add(value)
CallAdd(t, value) ==
  /\ ncalls < MaxAdds
  /\ BeginAdd(t, "add", None, value)

\* a direct call of load()
CallLoad(t) ==
  /\ hpos[t] # 0 /\ pc[t] = "idle"
  /\ pc' = [pc EXCEPT ![t] = "load_lock"]
  /\ op' = [op EXCEPT ![t] = "load"]
  /\ loaded' = [loaded EXCEPT ![t] = 0]
  /\ UNCHANGED <<arg, delta, found, ret, handles, cell, lock, observed, history>>
  /\ UNCHANGED <<msgside, poisoned, lastw, hcb>>

\* self.0.lock().unwrap(): the thread gets the mutex once it is free, and
\* panics (the guard inside the PoisonError is dropped) when it is poisoned
LockUnwrap(t, next) ==
  /\ CanLock(Trk(t))
  /\ IF poisoned[Trk(t)]
       THEN pc' = [pc EXCEPT ![t] = "panicked"] /\ UNCHANGED lock
       ELSE pc' = [pc EXCEPT ![t] = next] /\ lock' = [lock EXCEPT ![Trk(t)] = t]

\* add: let mut guard = self.0.lock().unwrap()
AddLock(t) ==
  /\ pc[t] = "add_lock"
  /\ LockUnwrap(t, "add_read")
  /\ UNCHANGED <<op, locals, handles, cell, observed, history>>
  /\ UNCHANGED <<msgside, poisoned, lastw, hcb>>

\* add: the read of *guard on the right-hand side
AddRead(t) ==
  /\ pc[t] = "add_read"
  /\ found' = [found EXCEPT ![t] = cell[Trk(t)]]
  /\ pc' = [pc EXCEPT ![t] = "add_write"]
  /\ UNCHANGED <<op, arg, delta, loaded, ret, handles, cell, lock, observed, history>>
  /\ UNCHANGED <<msgside, poisoned, lastw, hcb>>

\* add: the store to *guard, then the guard is dropped and add returns
\* (a thread's locals are forgotten when its outermost call returns)
AddWrite(t) ==
  /\ pc[t] = "add_write"
  /\ cell' = [cell EXCEPT ![Trk(t)] = AddValue(found[t], delta[t])]
  /\ acc' = AddValue(acc, delta[t])
  /\ lock' = Unlock(Trk(t))
  /\ pc' = [pc EXCEPT ![t] = IF op[t] = "inc" THEN "load_lock" ELSE "idle"]
  /\ IF op[t] = "inc"
       THEN UNCHANGED <<found, delta>>
       ELSE /\ found' = [found EXCEPT ![t] = 0]
            /\ delta' = [delta EXCEPT ![t] = 0]
  /\ lastw' = IF op[t] = "inc" THEN t ELSE 0
  /\ UNCHANGED <<op, arg, loaded, ret, handles, observed, begun, initv>>
  /\ UNCHANGED <<msgside, poisoned, hcb>>

\* load: self.0.lock().unwrap()
LoadLock(t) ==
  /\ pc[t] = "load_lock"
  /\ LockUnwrap(t, "load_read")
  /\ UNCHANGED <<op, locals, handles, cell, observed, history>>
  /\ UNCHANGED <<msgside, poisoned, lastw, hcb>>

\* load: the read through the temporary guard, which is then dropped
LoadRead(t) ==
  /\ pc[t] = "load_read"
  /\ loaded' = [loaded EXCEPT ![t] = cell[Trk(t)]]
  /\ lock' = Unlock(Trk(t))
  /\ pc' = [pc EXCEPT ![t] = IF op[t] = "inc" THEN "callback" ELSE "idle"]
  /\ UNCHANGED <<op, arg, delta, found, ret, handles, cell, observed, history>>
  /\ UNCHANGED <<msgside, poisoned, lastw, hcb>>

\* A slip: the callback is skipped when the position did not move
PosCallbackSkipUnchanged(t, r) ==
  /\ pc[t] = "callback"
  /\ IF loaded[t] = found[t]
       THEN /\ UNCHANGED observed
            /\ ret' = [ret EXCEPT ![t] = "Ok"]
       ELSE /\ shown' = CallbackArg(t)
            /\ answer' = r
            /\ ncb' = ncb + 1
            /\ ret' = [ret EXCEPT ![t] = IncResult(r)]
  /\ pc' = [pc EXCEPT ![t] = "idle"]
  /\ arg' = [arg EXCEPT ![t] = None]
  /\ delta' = [delta EXCEPT ![t] = 0]
  /\ found' = [found EXCEPT ![t] = 0]
  /\ loaded' = [loaded EXCEPT ![t] = 0]
  /\ UNCHANGED <<op, handles, cell, lock, history>>
  /\ UNCHANGED <<msgside, poisoned, lastw, hcb>>

\* inc, lines 63-64: the position callback runs on the loaded value and
\* answers r; inc returns
PosCallback(t, r) ==
  /\ pc[t] = "callback"
  /\ shown' = CallbackArg(t)
  /\ answer' = r
  /\ ncb' = ncb + 1
  /\ ret' = [ret EXCEPT ![t] = IncResult(r)]
  /\ pc' = [pc EXCEPT ![t] = "idle"]
  /\ arg' = [arg EXCEPT ![t] = None]
  /\ delta' = [delta EXCEPT ![t] = 0]
  /\ found' = [found EXCEPT ![t] = 0]
  /\ loaded' = [loaded EXCEPT ![t] = 0]
  /\ UNCHANGED <<op, handles, cell, lock, history>>
  /\ UNCHANGED <<msgside, poisoned, lastw, hcb>>

\* ---------------------------------------------------------------- messages
posside == <<arg, delta, found, loaded, handles, cell, lock, observed, history,
             lastw, poisoned, hcb>>

\* show_msg(msg), line 52: msg.to_string() is evaluated, then the callback is called
ShowMsg(t, m) ==
  /\ hpos[t] # 0 /\ pc[t] = "idle"
  /\ ncalls + nshow + nsend < MaxCalls
  /\ pc' = [pc EXCEPT ![t] = "msg_callback"]
  /\ op' = [op EXCEPT ![t] = "show_msg"]
  /\ marg' = [marg EXCEPT ![t] = m]
  /\ text' = [text EXCEPT ![t] = to_string(m)]
  /\ prog' = [prog EXCEPT ![t] = FALSE]
  /\ ret' = [ret EXCEPT ![t] = "none"]
  /\ nshow' = nshow + 1
  /\ UNCHANGED <<posside, printed, msgseen, nsend, nsendp>>

\* send_and_print(msg, progress), line 70: let m = msg.to_string()
SendAndPrint(t, m, p) ==
  /\ pc[t] = "idle"
  /\ p => hpos[t] # 0
  /\ ncalls + nshow + nsend < MaxCalls
  /\ pc' = [pc EXCEPT ![t] = "println"]
  /\ op' = [op EXCEPT ![t] = "send_and_print"]
  /\ marg' = [marg EXCEPT ![t] = m]
  /\ text' = [text EXCEPT ![t] = to_string(m)]
  /\ prog' = [prog EXCEPT ![t] = p]
  /\ ret' = [ret EXCEPT ![t] = "none"]
  /\ nsend' = nsend + 1
  /\ nsendp' = IF p THEN nsendp + 1 ELSE nsendp
  /\ UNCHANGED <<posside, printed, msgseen, nshow>>

\* send_and_print, lines 71-75: println!("{m}"), then show_msg(m) through the
\* handle if there is one, else Ok(())
Println(t) ==
  /\ pc[t] = "println"
  /\ printed' = Append(printed, text[t])
  /\ pc' = [pc EXCEPT ![t] = AfterPrint(prog[t])]
  /\ IF pc'[t] = "idle"
       THEN /\ ret' = [ret EXCEPT ![t] = "Ok"]
            /\ marg' = [marg EXCEPT ![t] = NoMsg]
            /\ text' = [text EXCEPT ![t] = ""]
            /\ prog' = [prog EXCEPT ![t] = FALSE]
       ELSE UNCHANGED <<ret, mlocals>>
  /\ UNCHANGED <<op, posside, msgseen, mcalls>>

\* the message callback runs on the text and answers r; show_msg returns, and
\* with it send_and_print when that is the caller
MsgCallback(t, r) ==
  /\ pc[t] = "msg_callback"
  /\ msgshown' = text[t]
  /\ manswer' = r
  /\ nmsg' = nmsg + 1
  /\ ret' = [ret EXCEPT ![t] = IF op[t] = "show_msg" THEN ShowResult(r)
                                                    ELSE SendResult(ShowResult(r))]
  /\ pc' = [pc EXCEPT ![t] = "idle"]
  /\ marg' = [marg EXCEPT ![t] = NoMsg]
  /\ text' = [text EXCEPT ![t] = ""]
  /\ prog' = [prog EXCEPT ![t] = FALSE]
  /\ UNCHANGED <<op, posside, printed, mcalls>>

\* a callback that was invoked does not return but panics: the thread unwinds,
\* and a MutexGuard it holds is dropped during the panic, which poisons the mutex
CallbackPanics(t) ==
  /\ pc[t] \in {"callback", "msg_callback"}
  /\ pc' = [pc EXCEPT ![t] = "panicked"]
  /\ poisoned' = [tr \in TrackerIds |-> poisoned[tr] \/ lock[tr] = t]
  /\ lock' = [tr \in TrackerIds |-> IF lock[tr] = t THEN 0 ELSE lock[tr]]
  /\ IF pc[t] = "callback"
       THEN /\ shown' = CallbackArg(t) /\ ncb' = ncb + 1
            /\ UNCHANGED <<answer, msgseen>>
       ELSE /\ msgshown' = text[t] /\ nmsg' = nmsg + 1
            /\ UNCHANGED <<manswer, observed>>
  /\ UNCHANGED <<op, locals, mlocals, handles, cell, history, lastw, hcb,
                 printed, mcalls>>

\* ---------------------------------------------------------------- specifications
Next ==
  \/ \E s, d \in Threads : Clone(s, d)
  \/ \E t \in Threads, l \in Lens : WithLen(t, l)
  \/ \E t \in Threads, v \in IncArgs : CallInc(t, v)
  \/ \E t \in Threads : AddLock(t)
  \/ \E t \in Threads : AddRead(t)
  \/ \E t \in Threads : AddWrite(t)
  \/ \E t \in Threads : LoadLock(t)
  \/ \E t \in Threads : LoadRead(t)
  \/ \E t \in Threads, r \in {"Ok", "Err"} : PosCallback(t, r)

Spec == Init /\ [][Next]_vars

NextPos ==
  \/ \E t \in Threads, v \in AddDeltas : CallAdd(t, v)
  \/ \E t \in Threads : CallLoad(t)
  \/ \E t \in Threads : AddLock(t)
  \/ \E t \in Threads : AddRead(t)
  \/ \E t \in Threads : AddWrite(t)
  \/ \E t \in Threads : LoadLock(t)
  \/ \E t \in Threads : LoadRead(t)

SpecPos == InitPos /\ [][NextPos]_vars

\* Progress handles whose len is left at 0.0, with their messages, and
\* callbacks that may panic
NextAll ==
  \/ \E s, d \in Threads : Clone(s, d)
  \/ \E t \in Threads, v \in IncArgs : CallInc(t, v)
  \/ \E t \in Threads : AddLock(t)
  \/ \E t \in Threads : AddRead(t)
  \/ \E t \in Threads : AddWrite(t)
  \/ \E t \in Threads : LoadLock(t)
  \/ \E t \in Threads : LoadRead(t)
  \/ \E t \in Threads, r \in {"Ok", "Err"} : PosCallback(t, r)
  \/ \E t \in Threads, m \in Msgs : ShowMsg(t, m)
  \/ \E t \in Threads, m \in Msgs, p \in BOOLEAN : SendAndPrint(t, m, p)
  \/ \E t \in Threads : Println(t)
  \/ \E t \in Threads, r \in {"Ok", "Err"} : MsgCallback(t, r)
  \/ \E t \in Threads : CallbackPanics(t)

SpecAll == Init /\ [][NextAll]_vars

\* Progress handles used from several threads for inc and show_msg, with
\* callbacks that return
NextLive ==
  \/ \E s, d \in Threads : Clone(s, d)
  \/ \E t \in Threads, v \in IncArgs : CallInc(t, v)
  \/ \E t \in Threads : AddLock(t)
  \/ \E t \in Threads : AddRead(t)
  \/ \E t \in Threads : AddWrite(t)
  \/ \E t \in Threads : LoadLock(t)
  \/ \E t \in Threads : LoadRead(t)
  \/ \E t \in Threads, r \in {"Ok", "Err"} : PosCallback(t, r)
  \/ \E t \in Threads, m \in Msgs : ShowMsg(t, m)
  \/ \E t \in Threads, r \in {"Ok", "Err"} : MsgCallback(t, r)

\* the steps a thread takes inside a call once the call is made
Step(t) ==
  \/ AddLock(t) \/ AddRead(t) \/ AddWrite(t) \/ LoadLock(t) \/ LoadRead(t)
  \/ \E r \in {"Ok", "Err"} : PosCallback(t, r)
  \/ \E r \in {"Ok", "Err"} : MsgCallback(t, r)

\* fair scheduling: a thread that is inside a call and able to take its next
\* step (a lock() is able to once the mutex is free) eventually takes it
SpecLive == Init /\ [][NextLive]_vars /\ \A t \in Threads : WF_vars(Step(t))

\* ---------------------------------------------------------------- properties
Quiescent == \A t \in Threads : pc[t] = "idle"

\* thread t has never called inc
NeverCalled(t) == pc[t] = "idle" /\ ret[t] = "none"

\* this step is the return of thread t's add
AddReturns(t) == pc[t] = "add_write" /\ pc'[t] # "add_write"

\* this step is thread t's invocation of the position callback
CallbackRuns(t) == pc[t] = "callback" /\ pc'[t] = "idle"

\* the position seen through thread t's handle
View(t) == cell[hpos[t]]

\* C1: when every inc call made on the clones of one handle has returned and
\* all the deltas were non-negative, the position is
\* min(initial position + sum of all the deltas, 100), whatever the interleaving.
C1_NoLostUpdates ==
  (Quiescent /\ nonneg) => cell[1] = FMin(FAdd(initv, sum), Top)

\* C1 witness: two threads have each completed inc(Some(60)); 120 clamps to 100
C1_Witness ==
  /\ Quiescent /\ nonneg
  /\ \A t \in {1, 2} : ret[t] # "none"
  /\ sum = 120 /\ cell[1] = 100

\* C2: on a tracker created at 0 that received only non-negative increments, a
\* load() that reads while no add is in progress returns
\* min(sum of the increments so far, 100): the running sum while it is <= 100.
C2_SequentialSum ==
  [][\A t \in Threads :
       ( /\ pc[t] = "load_read" /\ pc'[t] = "idle"
         /\ initv = 0 /\ nonneg
         /\ \A u \in Threads : pc[u] \notin {"add_lock", "add_read", "add_write"} )
       => loaded'[t] = FMin(sum, Top)]_vars

\* C2 witness: after add(1), add(2), add(10) on a tracker created at 0, load() returned 13
C2_Witness ==
  /\ Quiescent /\ initv = 0 /\ ncalls = 3 /\ sum = 13
  /\ \E t \in Threads : op[t] = "load" /\ loaded[t] = 13

\* C3 (as claimed, here already for non-negative deltas alone): every value the
\* position callback receives is >= the value it received in the invocation before.
C3_CallbackMonotone ==
  [][\A t \in Threads :
       (CallbackRuns(t) /\ ncb > 0 /\ nonneg) => FLe(shown, shown')]_vars

\* C4 (as claimed): the position never decreases, whatever deltas add is given.
C4_Monotone ==
  [][FLe(cell[1], cell'[1])]_vars

\* C5: whatever value the tracker was constructed with and whatever the delta,
\* the position is at most 100 when an add returns and stays at most 100 from
\* then on; a tracker found at 95 by add(10) holds exactly 100.
C5_UpperClamp ==
  [][/\ \A t \in Threads : AddReturns(t) =>
          /\ FLe(cell'[1], Top)
          /\ (found[t] = 95 /\ delta[t] = 10) => cell'[1] = 100
     /\ FLe(cell[1], Top) => FLe(cell'[1], Top)]_vars

\* C5 witness: a tracker constructed at 95 has completed add(10) and holds 100
C5_Witness ==
  /\ Quiescent /\ initv = 95 /\ ncalls = 1 /\ sum = 10 /\ cell[1] = 100

\* C6 (as claimed): every value the position callback is invoked with lies in [0, 100].
C6_CallbackRange ==
  ncb > 0 => (FLe(0, shown) /\ FLe(shown, Top))

\* C7 (as claimed): once the position is 100, every further add leaves it at exactly 100.
C7_ClampIdempotent ==
  [][\A t \in Threads : (cell[1] = Top /\ AddReturns(t)) => cell'[1] = Top]_vars

\* C8: when the position callback answers with a failure, inc returns that
\* failure (and success when it answers success); the position is not changed
\* by the callback step (no roll back), and it was advanced before the callback
\* ran: it is min(P + delta, 100) for the position P this add found when no
\* other thread has called inc, and at least that when all deltas are >= 0.
C8_UpdateThenNotify ==
  [][\A t \in Threads : CallbackRuns(t) =>
       /\ answer' = "Err" => ret'[t] = "Err"
       /\ answer' = "Ok" => ret'[t] = "Ok"
       /\ cell' = cell
       /\ (\A u \in Threads \ {t} : NeverCalled(u))
            => View(t) = FMin(FAdd(found[t], delta[t]), Top)
       /\ nonneg => FLe(FMin(FAdd(found[t], delta[t]), Top), View(t))]_vars

\* C8 witness: inc(Some(60)) returned the callback's failure and the position is 60
C8_Witness ==
  /\ pc[1] = "idle" /\ ret[1] = "Err" /\ answer = "Err"
  /\ ncb = 1 /\ shown = 60 /\ cell[1] = 60

\* C9: an inc(None) on a handle with len L whose add found the position at P
\* stores min(P + L, 100), exactly what an inc(Some(v)) stores with v in
\* place of L; and with no other thread calling inc, the callback receives
\* that same value.
C9_IncNoneIsIncLen ==
  [][\A t \in Threads :
       LET d == IF arg[t].some THEN arg[t].v ELSE len[t]
           new == FMin(FAdd(found[t], d), Top)
       IN /\ (op[t] = "inc" /\ AddReturns(t)) => View(t)' = new
          /\ (CallbackRuns(t) /\ \A u \in Threads \ {t} : NeverCalled(u))
               => shown' = new]_vars

\* C9 witness: inc(None) on a handle with len 40 is about to report 40
C9_Witness ==
  \E t \in Threads :
    /\ pc[t] = "callback" /\ ~arg[t].some /\ len[t] = 40
    /\ found[t] = 0 /\ loaded[t] = 40

\* C10: at every moment the position seen through every handle (the original
\* and its clones) is one and the same value, the clamped accumulation of all
\* the deltas stored so far through any of them.
C10_ClonesShareTracker ==
  \A h1, h2 \in Threads :
    (hpos[h1] # 0 /\ hpos[h2] # 0) => (View(h1) = View(h2) /\ View(h1) = acc)

\* C10 witness: a handle and its clone have each completed an inc (60 and -5)
C10_Witness ==
  /\ Quiescent /\ hpos[1] # 0 /\ hpos[2] # 0
  /\ ret[1] # "none" /\ ret[2] # "none"
  /\ View(1) = 55 /\ View(2) = 55

\* C11: a with_len that changes the len of a handle changes nothing else: the
\* position stays (it is not reset), the callbacks of every handle stay and
\* none is invoked, and the len of every other handle stays.
C11_WithLenFrame ==
  [][\A t \in Threads :
       (len'[t] # len[t] /\ hpos'[t] = hpos[t]) =>
         /\ cell' = cell /\ hpos' = hpos /\ hcb' = hcb
         /\ ncb' = ncb /\ shown' = shown
         /\ nmsg' = nmsg /\ msgshown' = msgshown
         /\ \A u \in Threads \ {t} : len'[u] = len[u]]_vars

\* C11 witness: the position is at 60, handle 1 has len 40 and its clone,
\* made before with_len, still has len 0
C11_Witness ==
  /\ Quiescent /\ cell[1] = 60
  /\ hpos[1] # 0 /\ len[1] = 40
  /\ hpos[2] # 0 /\ len[2] = 0

\* this step is thread t's write to standard output in send_and_print
PrintRuns(t) == pc[t] = "println" /\ pc'[t] # "println"

\* this step is the return of the message callback invoked for thread t
MsgCallbackReturns(t) == pc[t] = "msg_callback" /\ pc'[t] = "idle"

\* C12: send_and_print writes the text of the message to standard output in
\* every call; without a handle it then returns Ok and no callback is
\* invoked; with a handle it then invokes the message callback, once, with the
\* same text, already written, and returns the callback's answer. So when no
\* call is in progress as many lines are written as send_and_print was called,
\* and the message callback was invoked once per call that was given a handle.
C12_SendAndPrint ==
  /\ []((\A t \in Threads : pc[t] \notin {"println", "msg_callback"})
          => (Len(printed) = nsend /\ nmsg = nshow + nsendp))
  /\ [][\A t \in Threads : op[t] = "send_and_print" =>
          /\ PrintRuns(t) =>
               /\ printed' = Append(printed, to_string(marg[t]))
               /\ nmsg' = nmsg
               /\ prog[t] => pc'[t] = "msg_callback"
               /\ ~prog[t] => (pc'[t] = "idle" /\ ret'[t] = "Ok")
          /\ MsgCallbackReturns(t) =>
               /\ msgshown' = to_string(marg[t])
               /\ nmsg' = nmsg + 1
               /\ printed' = printed
               /\ \E i \in 1..Len(printed) : printed[i] = to_string(marg[t])
               /\ ret'[t] = manswer']_vars

\* C12 witness: send_and_print(7, Some(handle)) printed "7", forwarded "7" and
\* returned the callback's failure
C12_Witness ==
  \E t \in Threads :
    /\ pc[t] = "idle" /\ op[t] = "send_and_print" /\ ret[t] = "Err"
    /\ printed = <<"7">> /\ msgshown = "7" /\ manswer = "Err"
    /\ nsendp = 1 /\ nmsg = 1

\* C13: show_msg invokes the message callback once, with the text of the
\* message, and returns exactly its answer; neither the call nor the callback
\* step invokes the position callback, moves the position or changes a len.
C13_ShowMsg ==
  [][\A t \in Threads :
       LET frame == /\ ncb' = ncb /\ shown' = shown /\ answer' = answer
                    /\ cell' = cell /\ len' = len /\ printed' = printed
       IN /\ (pc[t] = "idle" /\ op'[t] = "show_msg" /\ pc'[t] = "msg_callback")
               => (nmsg' = nmsg /\ frame)
          /\ (op[t] = "show_msg" /\ MsgCallbackReturns(t))
               => /\ msgshown' = to_string(marg[t])
                  /\ nmsg' = nmsg + 1
                  /\ ret'[t] = manswer'
                  /\ frame]_vars

\* C13 witness: with the position at 60, show_msg(7) gave "7" to the callback
\* and returned its failure
C13_Witness ==
  \E t \in Threads :
    /\ pc[t] = "idle" /\ op[t] = "show_msg" /\ ret[t] = "Err"
    /\ msgshown = "7" /\ manswer = "Err" /\ nmsg = 1
    /\ cell[1] = 60 /\ ncb = 1

\* thread t is inside an inc call
InInc(t) == op[t] = "inc" /\ pc[t] \notin {"idle", "panicked"}

\* C14: every step of an inc leaves the message callback alone and only its
\* callback step invokes the position callback, once; so whenever no inc is
\* in progress the position callback was invoked exactly as many times as inc
\* was called, whether or not the calls moved the position or the callback failed.
C14_OneCallbackPerInc ==
  /\ []((\A t \in Threads : ~InInc(t)) => ncb = ncalls)
  /\ [][\A t \in Threads : (InInc(t) /\ pc'[t] # pc[t]) =>
          /\ nmsg' = nmsg /\ msgshown' = msgshown
          /\ ncb' = IF pc[t] = "callback" THEN ncb + 1 ELSE ncb]_vars

\* C14 witness: two inc(None) with len 0 left the position at 0, the callback
\* was invoked twice and failed the last time
C14_Witness ==
  /\ Quiescent /\ ncalls = 2 /\ ncb = 2
  /\ cell[1] = 0 /\ shown = 0 /\ answer = "Err"

\* C15: when the callbacks return and the threads are scheduled fairly, every
\* inc call that was made returns, whatever inc and show_msg calls the other
\* threads make on their clones.
C15_IncReturns ==
  \A t \in Threads : InInc(t) ~> (pc[t] = "idle" /\ ret[t] \in {"Ok", "Err"})

\* C15 witness: a thread inside inc waits for the lock another thread holds
C15_Witness ==
  \E t, u \in Threads :
    /\ t # u /\ op[t] = "inc" /\ pc[t] \in {"add_lock", "load_lock"}
    /\ lock[Trk(t)] = u

\* C16 (as claimed): the position callback is invoked with min(P + d, 100),
\* P being the position this inc's add found and d its delta.
C16_OwnTotal ==
  [][\A t \in Threads :
       CallbackRuns(t) => shown' = FMin(FAdd(found[t], delta[t]), Top)]_vars

\* C16 (amended): the position callback is invoked with the position inc
\* loads after its own add; that is min(P + d, 100) whenever no other thread's
\* add was stored between this inc's add and its load, and so whenever none
\* was stored before the callback is invoked.
C16_OwnTotalUnlessOvertaken ==
  [][\A t \in Threads :
       LET own == FMin(FAdd(found[t], delta[t]), Top)
       IN /\ (op[t] = "inc" /\ pc[t] = "load_read" /\ pc'[t] = "callback"
                /\ lastw = t) => loaded'[t] = own
          /\ (CallbackRuns(t) /\ lastw = t) => shown' = own]_vars

\* C16 witness: an inc(Some(60)) that found the position at 60 is about to
\* report 100, no other add having been stored since its own
C16_Witness ==
  \E t \in Threads :
    /\ pc[t] = "callback" /\ lastw = t
    /\ found[t] = 60 /\ delta[t] = 60 /\ loaded[t] = 100

\* C17: with non-negative deltas, the value an inc passes to the position
\* callback is at least the position its own add stored and at most the
\* position at the moment the callback is invoked.
C17_BetweenOwnAndNow ==
  [][\A t \in Threads :
       (CallbackRuns(t) /\ nonneg) =>
         /\ FLe(FMin(FAdd(found[t], delta[t]), Top), shown')
         /\ FLe(shown', View(t))]_vars

\* C17 witness: an inc(Some(60)) that found 0 is about to report 100, which
\* includes the 60 another thread added in between
C17_Witness ==
  \E t \in Threads :
    /\ pc[t] = "callback" /\ nonneg /\ lastw # t
    /\ found[t] = 0 /\ delta[t] = 60 /\ loaded[t] = 100

\* C18: a lock is held only by a thread that is between the lock() and the end
\* of add or load, never by a thread that is in a callback, that panicked or
\* that returned; and no lock is ever poisoned.
C18_NoLockInCallback ==
  \A tr \in TrackerIds :
    /\ ~poisoned[tr]
    /\ lock[tr] # 0 => pc[lock[tr]] \in {"add_read", "add_write", "load_read"}

\* C18 witness: while one thread is in a callback, another thread holds the
\* lock and is about to store
C18_Witness ==
  \E t, u \in Threads :
    /\ t # u /\ pc[t] \in {"callback", "msg_callback"}
    /\ lock[1] = u /\ pc[u] = "add_write"
====
